---- MODULE Spec2Model ----
(***************************************************************************)
(* Canonical correspondence analysis, skbio.stats.ordination.cca           *)
(* (src/skbio/stats/ordination/_canonical_correspondence_analysis.py).     *)
(*                                                                         *)
(* One call cca(y, x, scaling) is modelled as a state machine whose        *)
(* actions are the statements of the function body, in program order.      *)
(*                                                                         *)
(* Numbers.  The abundance table holds small integers, so the grand total, *)
(* the marginals and the expected table are exact rationals; they are      *)
(* kept as integer numerators over the stated denominator.  Values that    *)
(* pass through a square root or through LAPACK are kept as what the code  *)
(* can tell about them: the sign (or NaN) of each cell of Q_bar and of the *)
(* standardized X, and for the score tables the formula of each column     *)
(* (marginal factor, product it is taken from, axis, and the rational      *)
(* multiple of it that the singular values make).  np.linalg.lstsq and     *)
(* np.linalg.svd are library routines: the model takes any result their    *)
(* contract allows, and either outcome (LinAlgError, NaN handed on) when   *)
(* an operand holds NaN.  scale, svd_rank and corr live in _utils.py and   *)
(* follow the specification's description of them.                         *)
(*                                                                         *)
(* Tables have at least one row and one column, and finite entries.        *)
(***************************************************************************)
EXTENDS Integers, Sequences, FiniteSets, TLC

\* ---- bounds of the model ------------------------------------------------
\* abundance tables of 1..MaxSamples samples with entries -1..MaxAbundance,
\* scaling arguments 0..MaxScaling, singular values 0..MaxSV
MaxSamples == 2
MaxAbundance == 1
MaxScaling == 3
MaxSV == 3

\* one or two features; one constraint variable, 0 or 1 in every sample
FeatureCounts == {1, 2}
ConstraintCounts == {1}
ConstraintValues == {0, 1}

Abundances == (0 - 1)..MaxAbundance
ScalingArgs == 0..MaxScaling

\* ---- tables ---------------------------------------------------------------
Matrices(n, m, S) == [1..n -> [1..m -> S]]

NRows(M) == Len(M)
NCols(M) == Len(M[1])

Max2(a, b) == IF a >= b THEN a ELSE b
Min2(a, b) == IF a <= b THEN a ELSE b

RECURSIVE SumSeq(_)
SumSeq(v) == IF v = <<>> THEN 0 ELSE v[1] + SumSeq(Tail(v))

RECURSIVE MaxSeq(_)
MaxSeq(v) == IF Len(v) = 1 THEN v[1] ELSE Max2(v[1], MaxSeq(Tail(v)))

RECURSIVE MinSeq(_)
MinSeq(v) == IF Len(v) = 1 THEN v[1] ELSE Min2(v[1], MinSeq(Tail(v)))

Column(M, j) == [i \in 1..NRows(M) |-> M[i][j]]

\* M.sum(axis=1), M.sum(axis=0), M.sum()
SumAxis1(M) == [i \in 1..NRows(M) |-> SumSeq(M[i])]
SumAxis0(M) == [j \in 1..NCols(M) |-> SumSeq(Column(M, j))]
SumAll(M) == SumSeq(SumAxis1(M))

\* Y.min() and Y.max(axis=1)
MatMin(M) == MinSeq([i \in 1..NRows(M) |-> MinSeq(M[i])])
MaxAxis1(M) == [i \in 1..NRows(M) |-> MaxSeq(M[i])]

\* ---- the arguments: labelled tables (DataFrames) --------------------------
SampleIds(n) == [i \in 1..n |-> <<"site", i>>]
FeatureIds(m) == [j \in 1..m |-> <<"species", j>>]
ConstraintIds(q) == [k \in 1..q |-> <<"env", k>>]

DataFrame(idx, cols, vals) == [index |-> idx, columns |-> cols, values |-> vals]

\* DataFrame.as_matrix(): the values, without the labels
as_matrix(df) == df.values

\* ---- names bound in the module's namespace when cca runs ------------------
ModuleGlobals ==
    {"absolute_import", "division", "print_function", "np",
     "OrdinationResults", "Ordination", "corr", "svd_rank", "scale", "cca"}

\* ---- the four parameter sanity checks ------------------------------------
RowCountMismatch(Xm, Ym) == NRows(Xm) # NRows(Ym)

\* (as if the check looked at the largest entry)
NegativeAbundanceByMax(Ym) == MaxSeq(MaxAxis1(Ym)) < 0

NegativeAbundance(Ym) == MatMin(Ym) < 0

\* (as if the check were row_max < 0)
DegenerateSampleRowStrict(Ym) ==
    LET row_max == MaxAxis1(Ym)
    IN  \E i \in 1..Len(row_max) : row_max[i] < 0

DegenerateSampleRow(Ym) ==
    LET row_max == MaxAxis1(Ym)
    IN  \E i \in 1..Len(row_max) : row_max[i] <= 0

SupportedScalings == {1, 2}

\* (as if scaling 3 were accepted)
UnsupportedScalingLoose(sc) == sc \notin SupportedScalings \cup {3}

UnsupportedScaling(sc) == sc \notin SupportedScalings

\* ---- exceptions -------------------------------------------------------------
NoError == [type |-> "none", why |-> "none"]
Raise(t, w) == [type |-> t, why |-> w]

\* ---- Step 1: relative frequencies, marginals, expected table, Q_bar -------
\* A table or vector of rationals with one common denominator.
Over(nums, d) == [num |-> nums, den |-> d]

\* Q = Y / grand_total
RelativeFrequencies(Ym, total) == Over(Ym, total)

\* np.outer(row_marginals, column_marginals)
Outer(r, c) ==
    Over([i \in 1..Len(r.num) |-> [j \in 1..Len(c.num) |-> r.num[i] * c.num[j]]],
         r.den * c.den)

Sign(n) == IF n > 0 THEN "pos" ELSE IF n < 0 THEN "neg" ELSE "zero"

\* One cell of (Q - expected) / np.sqrt(expected): the sign of the quotient;
\* 0/0 is NaN and a nonzero numerator over 0 is infinite (numpy warns and
\* goes on).  qn/qd - en/ed has the sign of qn*ed - en*qd for qd, ed > 0.
QBarCell(qn, qd, en, ed) ==
    LET diff == qn * ed - en * qd
    IN  IF en = 0 THEN (IF diff = 0 THEN "nan" ELSE "inf") ELSE Sign(diff)

StandardizedResiduals(Qf, E) ==
    [i \in 1..NRows(Qf.num) |->
        [j \in 1..NCols(Qf.num) |->
            QBarCell(Qf.num[i][j], Qf.den, E.num[i][j], E.den)]]

\* a sqrt(expected) cell that is zero is a division by zero
ZeroCells(E) ==
    {<<i, j>> \in (1..NRows(E.num)) \X (1..NCols(E.num)) : E.num[i][j] = 0}

Cells(M) == {M[i][j] : i \in 1..NRows(M), j \in 1..NCols(M)}

IsFinite(M) == Cells(M) \cap {"nan", "inf"} = {}
IsZero(M) == Cells(M) = {"zero"}

\* ---- Step 2: weighted standardization (skbio.stats.ordination._utils.scale)
\* Column k of the table, centred by its weighted mean: with weights
\* w.num[i] / w.den the mean is (SUM_l w.num[l] * a[l][k]) / w.den, so the
\* centred cell is CentredNum / w.den.
WeightedSum(a, w, k) ==
    SumSeq([l \in 1..NRows(a) |-> w.num[l] * a[l][k]])

CentredNum(a, w, i, k) == w.den * a[i][k] - WeightedSum(a, w, k)

\* numerator of the weighted variance with ddof = 0 (denominator w.den^3)
VarianceNum(a, w, k) ==
    SumSeq([i \in 1..NRows(a) |-> w.num[i] * CentredNum(a, w, i, k) * CentredNum(a, w, i, k)])

\* columns whose weighted standard deviation is zero
ZeroStdColumns(a, w) == {k \in 1..NCols(a) : VarianceNum(a, w, k) = 0}

\* scale(a, weights=w, ddof=0): centre each column by its weighted mean and
\* divide it by its weighted standard deviation
scale(a, w) ==
    [i \in 1..NRows(a) |->
        [k \in 1..NCols(a) |->
            IF VarianceNum(a, w, k) = 0
            THEN (IF CentredNum(a, w, i, k) = 0 THEN "nan" ELSE "inf")
            ELSE Sign(CentredNum(a, w, i, k))]]

\* ---- Step 3: X_weighted = row_marginals[:, None]**0.5 * X ----------------
RowWeighted(w, a) ==
    [i \in 1..NRows(a) |->
        [k \in 1..NCols(a) |->
            IF a[i][k] \in {"nan", "inf"} THEN a[i][k]
            ELSE IF w.num[i] = 0 THEN "zero" ELSE a[i][k]]]

\* What is known of Y_hat = X_weighted.dot(B) and of Y_res = Q_bar - Y_hat
\* for the minimum-norm least-squares solution B: both are exactly zero when
\* Q_bar is, Y_hat is exactly zero when X_weighted is, and both carry NaN when
\* an operand does.
FittedClass(Xw, Qb) ==
    IF ~IsFinite(Xw) \/ ~IsFinite(Qb) THEN "nan"
    ELSE IF IsZero(Xw) \/ IsZero(Qb) THEN "zero"
    ELSE "any"

ResidualClass(Xw, Qb) ==
    IF ~IsFinite(Xw) \/ ~IsFinite(Qb) THEN "nan"
    ELSE IF IsZero(Qb) THEN "zero"
    ELSE "any"

\* ---- Step 4: singular values and effective rank ---------------------------
\* machine epsilon of the value type: the unit singular values are counted in
Eps == 1

NonIncreasing(v) == \A k \in 1..(Len(v) - 1) : v[k] >= v[k + 1]

\* np.linalg.svd(M, full_matrices=False)[1] for an n x m matrix of the given
\* class: min(n, m) non-negative values in non-increasing order
SingularValues(cls, n, m) ==
    IF cls = "zero" THEN {[k \in 1..Min2(n, m) |-> 0]}
    ELSE {v \in [1..Min2(n, m) -> 0..MaxSV] : NonIncreasing(v)}

\* svd_rank(M_shape, S): the singular values above the tolerance
svd_rank(n, m, S) ==
    LET tol == Max2(n, m) * Eps
    IN  Cardinality({k \in 1..Len(S) : S[k] > tol})

\* ---- score tables: one description per column ------------------------------
\* A column is  fac * base[:, axis] * (num / den).
Col(b, k) == [fac |-> "1", base |-> b, axis |-> k, num |-> 1, den |-> 1]

\* the first r columns of a named matrix
Columns(b, r) == [k \in 1..r |-> Col(b, k)]

\* cols * sv  and  cols * sv**-1  (column k by sv[k])
Times(cols, sv) == [k \in 1..Len(cols) |-> [cols[k] EXCEPT !.num = @ * sv[k]]]
TimesInv(cols, sv) == [k \in 1..Len(cols) |-> [cols[k] EXCEPT !.den = @ * sv[k]]]

\* (marginals**-0.5)[:, None] * cols
Weighted(f, cols) == [k \in 1..Len(cols) |-> [cols[k] EXCEPT !.fac = f]]

hstack(a, b) == a \o b

\* np.r_[s, s_res]**2
Squares(v) == [k \in 1..Len(v) |-> v[k] * v[k]]

ZeroEntries(v) == {k \in 1..Len(v) : v[k] = 0}

\* corr(X_weighted, u): one row per column of X_weighted, one column per
\* column of u
corr(Xw, ucols) == [nrows |-> NCols(Xw), cols |-> Columns("corr", Len(ucols))]

\* ---- state ------------------------------------------------------------------
VARIABLES
    y, x, scaling,          \* the arguments
    pc,                     \* the statement about to execute
    err,                    \* the exception that ended the call, if any
    trace,                  \* the numerical steps executed so far
    divzero,                \* the expressions in which a division by zero occurred
    Y, X,                   \* the matrices (X is rebound by Step 2)
    grand_total, Q, column_marginals, row_marginals, expected, Q_bar,
    X_weighted, Y_hat, Y_res,
    rank, s, u, U, U_hat,
    s_res, U_res, U_hat_res, eigenvalues,
    fam,                    \* V, V_hat, F, F_hat, Z_scaling1, ... (lines 175-202)
    species_scores, site_scores, site_constraints, biplot_scores,
    result                  \* the value returned

ArgVars == <<y, x, scaling>>
Step1Vars == <<grand_total, Q, column_marginals, row_marginals, expected, Q_bar>>
Step3Vars == <<X_weighted, Y_hat, Y_res>>
Step4Vars == <<s, u, U>>
ResVars == <<s_res, U_res, U_hat_res, eigenvalues>>
ScoreVars == <<species_scores, site_scores, site_constraints>>

vars == <<y, x, scaling, pc, err, trace, divzero, Y, X, grand_total, Q,
          column_marginals, row_marginals, expected, Q_bar, X_weighted,
          Y_hat, Y_res, rank, s, u, U, U_hat, s_res, U_res, U_hat_res,
          eigenvalues, fam, species_scores, site_scores, site_constraints,
          biplot_scores, result>>

Unset == <<>>
None == [set |-> FALSE]

Init ==
    /\ \E n \in 1..MaxSamples, m \in FeatureCounts,
          nx \in 1..MaxSamples, q \in ConstraintCounts :
          /\ y \in {DataFrame(SampleIds(n), FeatureIds(m), v) :
                        v \in Matrices(n, m, Abundances)}
          /\ x \in {DataFrame(SampleIds(nx), ConstraintIds(q), v) :
                        v \in Matrices(nx, q, ConstraintValues)}
    /\ scaling \in ScalingArgs
    /\ pc = "as_matrix"
    /\ err = NoError
    /\ trace = <<>>
    /\ divzero = {}
    /\ Y = Unset /\ X = Unset
    /\ grand_total = 0
    /\ Q = Unset /\ column_marginals = Unset /\ row_marginals = Unset
    /\ expected = Unset /\ Q_bar = Unset
    /\ X_weighted = Unset /\ Y_hat = "unset" /\ Y_res = "unset"
    /\ rank = 0
    /\ s = Unset /\ u = Unset /\ U = Unset /\ U_hat = Unset
    /\ s_res = Unset /\ U_res = Unset /\ U_hat_res = Unset
    /\ eigenvalues = Unset
    /\ fam = None
    /\ species_scores = Unset /\ site_scores = Unset
    /\ site_constraints = Unset /\ biplot_scores = None
    /\ result = None

\* lines 104-105
AsMatrix ==
    /\ pc = "as_matrix"
    /\ Y' = as_matrix(y)
    /\ X' = as_matrix(x)
    /\ pc' = "check_rows"
    /\ UNCHANGED <<ArgVars, err, trace, divzero, Step1Vars, Step3Vars, rank,
                   Step4Vars, U_hat, ResVars, fam, ScoreVars, biplot_scores,
                   result>>

\* lines 108-112
CheckRows ==
    /\ pc = "check_rows"
    /\ IF RowCountMismatch(X, Y)
       THEN /\ err' = Raise("ValueError", "rows")
            /\ pc' = "raised"
       ELSE /\ err' = err
            /\ pc' = "check_nonnegative"
    /\ UNCHANGED <<ArgVars, trace, divzero, Y, X, Step1Vars, Step3Vars, rank,
                   Step4Vars, U_hat, ResVars, fam, ScoreVars, biplot_scores,
                   result>>

\* lines 113-115
CheckNonNegative ==
    /\ pc = "check_nonnegative"
    /\ IF NegativeAbundance(Y)
       THEN /\ err' = Raise("ValueError", "negative")
            /\ pc' = "raised"
       ELSE /\ err' = err
            /\ pc' = "check_row_max"
    /\ UNCHANGED <<ArgVars, trace, divzero, Y, X, Step1Vars, Step3Vars, rank,
                   Step4Vars, U_hat, ResVars, fam, ScoreVars, biplot_scores,
                   result>>

\* lines 116-120
CheckRowMax ==
    /\ pc = "check_row_max"
    /\ IF DegenerateSampleRow(Y)
       THEN /\ err' = Raise("ValueError", "zero_row")
            /\ pc' = "raised"
       ELSE /\ err' = err
            /\ pc' = "check_scaling"
    /\ UNCHANGED <<ArgVars, trace, divzero, Y, X, Step1Vars, Step3Vars, rank,
                   Step4Vars, U_hat, ResVars, fam, ScoreVars, biplot_scores,
                   result>>

\* lines 121-123
CheckScaling ==
    /\ pc = "check_scaling"
    /\ IF UnsupportedScaling(scaling)
       THEN /\ err' = Raise("NotImplementedError", "scaling")
            /\ pc' = "raised"
       ELSE /\ err' = err
            /\ pc' = "step1"
    /\ UNCHANGED <<ArgVars, trace, divzero, Y, X, Step1Vars, Step3Vars, rank,
                   Step4Vars, U_hat, ResVars, fam, ScoreVars, biplot_scores,
                   result>>

\* lines 125-137
Step1 ==
    /\ pc = "step1"
    /\ LET total == SumAll(Y)
           Qf == RelativeFrequencies(Y, total)
           cm == Over(SumAxis0(Qf.num), Qf.den)
           rm == Over(SumAxis1(Qf.num), Qf.den)
           E == Outer(rm, cm)
       IN  /\ grand_total' = total
           /\ Q' = Qf
           /\ column_marginals' = cm
           /\ row_marginals' = rm
           /\ expected' = E
           /\ Q_bar' = StandardizedResiduals(Qf, E)
           /\ divzero' = divzero \cup
                 (IF total = 0 THEN {"Q"} ELSE {}) \cup
                 (IF ZeroCells(E) # {} THEN {"Q_bar"} ELSE {})
    /\ trace' = Append(trace, "step1")
    /\ pc' = "step2"
    /\ UNCHANGED <<ArgVars, err, Y, X, Step3Vars, rank, Step4Vars, U_hat,
                   ResVars, fam, ScoreVars, biplot_scores, result>>

\* line 142
Step2 ==
    /\ pc = "step2"
    /\ X' = scale(X, row_marginals)
    /\ divzero' = divzero \cup
          (IF ZeroStdColumns(X, row_marginals) # {} THEN {"scale"} ELSE {})
    /\ trace' = Append(trace, "step2")
    /\ pc' = "step3"
    /\ UNCHANGED <<ArgVars, err, Y, Step1Vars, Step3Vars, rank, Step4Vars,
                   U_hat, ResVars, fam, ScoreVars, biplot_scores, result>>

\* lines 145-148.  np.linalg.lstsq on operands that hold NaN either raises
\* LinAlgError (the SVD inside does not converge) or hands NaN on.
Step3 ==
    /\ pc = "step3"
    /\ LET Xw == RowWeighted(row_marginals, X)
       IN  /\ X_weighted' = Xw
           /\ \/ /\ Y_hat' = FittedClass(Xw, Q_bar)
                 /\ Y_res' = ResidualClass(Xw, Q_bar)
                 /\ err' = err
                 /\ pc' = "step4"
              \/ /\ FittedClass(Xw, Q_bar) = "nan"
                 /\ UNCHANGED <<Y_hat, Y_res>>
                 /\ err' = Raise("LinAlgError", "lstsq")
                 /\ pc' = "raised"
    /\ trace' = Append(trace, "step3")
    /\ UNCHANGED <<ArgVars, divzero, Y, X, Step1Vars, rank, Step4Vars, U_hat,
                   ResVars, fam, ScoreVars, biplot_scores, result>>

\* lines 151-156.  np.linalg.svd of a matrix that holds NaN either raises
\* LinAlgError or returns NaN singular values, none of which is above the
\* tolerance.
Step4 ==
    /\ pc = "step4"
    /\ \/ /\ Y_hat # "nan"
          /\ \E sv \in SingularValues(Y_hat, NRows(Y), NCols(Y)) :
                LET r == svd_rank(NRows(Y), NCols(Y), sv)
                IN  /\ rank' = r
                    /\ s' = SubSeq(sv, 1, r)
                    /\ u' = Columns("u", r)
                    /\ U' = Columns("vt.T", r)
          /\ err' = err
          /\ pc' = "step5"
       \/ /\ Y_hat = "nan"
          /\ rank' = 0
          /\ s' = <<>>
          /\ u' = <<>>
          /\ U' = <<>>
          /\ err' = err
          /\ pc' = "step5"
       \/ /\ Y_hat = "nan"
          /\ UNCHANGED <<rank, s, u, U>>
          /\ err' = Raise("LinAlgError", "svd")
          /\ pc' = "raised"
    /\ trace' = Append(trace, "step4")
    /\ UNCHANGED <<ArgVars, divzero, Y, X, Step1Vars, Step3Vars, U_hat,
                   ResVars, fam, ScoreVars, biplot_scores, result>>

\* line 159
Step5 ==
    /\ pc = "step5"
    /\ U_hat' = TimesInv(Columns("Q_bar.U", Len(U)), s)
    /\ divzero' = divzero \cup (IF ZeroEntries(s) # {} THEN {"U_hat"} ELSE {})
    /\ trace' = Append(trace, "step5")
    /\ pc' = "residuals"
    /\ UNCHANGED <<ArgVars, err, Y, X, Step1Vars, Step3Vars, rank, Step4Vars,
                   ResVars, fam, ScoreVars, biplot_scores, result>>

\* lines 161-171
Residuals ==
    /\ pc = "residuals"
    /\ \/ /\ Y_res # "nan"
          /\ \E sv \in SingularValues(Y_res, NRows(Y), NCols(Y)) :
                LET r == svd_rank(NRows(Y), NCols(Y), sv)
                    sr == SubSeq(sv, 1, r)
                IN  /\ rank' = r
                    /\ s_res' = sr
                    /\ U_res' = Columns("vt_res.T", r)
                    /\ U_hat_res' = TimesInv(Columns("Y_res.U_res", r), sr)
                    /\ eigenvalues' = Squares(s \o sr)
                    /\ divzero' = divzero \cup
                          (IF ZeroEntries(sr) # {} THEN {"U_hat_res"} ELSE {})
          /\ err' = err
          /\ pc' = "scalings"
       \/ /\ Y_res = "nan"
          /\ rank' = 0
          /\ s_res' = <<>>
          /\ U_res' = <<>>
          /\ U_hat_res' = <<>>
          /\ eigenvalues' = Squares(s)
          /\ divzero' = divzero
          /\ err' = err
          /\ pc' = "scalings"
       \/ /\ Y_res = "nan"
          /\ UNCHANGED <<rank, ResVars, divzero>>
          /\ err' = Raise("LinAlgError", "svd")
          /\ pc' = "raised"
    /\ trace' = Append(trace, "residuals")
    /\ UNCHANGED <<ArgVars, Y, X, Step1Vars, Step3Vars, Step4Vars, U_hat,
                   fam, ScoreVars, biplot_scores, result>>

\* lines 173-202
Scalings ==
    /\ pc = "scalings"
    /\ LET V == Weighted("column_marginals**-0.5", U)
           V_hat == Weighted("row_marginals**-0.5", U_hat)
           F == Times(V_hat, s)
           F_hat == Times(V, s)
           Z_scaling1 == Weighted("row_marginals**-0.5",
                                  Columns("Y_hat.U", Len(U)))
           Z_scaling2 == TimesInv(Z_scaling1, s)
           V_res == Weighted("column_marginals**-0.5", U_res)
           V_hat_res == Weighted("row_marginals**-0.5", U_hat_res)
           F_res == Times(V_hat_res, s_res)
           F_hat_res == Times(V_res, s_res)
       IN  fam' = [set |-> TRUE,
                   V |-> V, V_hat |-> V_hat, F |-> F, F_hat |-> F_hat,
                   Z_scaling1 |-> Z_scaling1, Z_scaling2 |-> Z_scaling2,
                   V_res |-> V_res, V_hat_res |-> V_hat_res,
                   F_res |-> F_res, F_hat_res |-> F_hat_res]
    /\ divzero' = divzero \cup
          (IF ZeroEntries(column_marginals.num) # {}
           THEN {"column_marginals**-0.5"} ELSE {}) \cup
          (IF ZeroEntries(row_marginals.num) # {}
           THEN {"row_marginals**-0.5"} ELSE {}) \cup
          (IF ZeroEntries(s) # {} THEN {"Z_scaling2"} ELSE {})
    /\ trace' = Append(trace, "scalings")
    /\ pc' = "select"
    /\ UNCHANGED <<ArgVars, err, Y, X, Step1Vars, Step3Vars, rank, Step4Vars,
                   U_hat, ResVars, ScoreVars, biplot_scores, result>>

\* lines 204-212
SelectScaling ==
    /\ pc = "select"
    /\ IF scaling = 1
       THEN /\ species_scores' = hstack(fam.V, fam.V_res)
            /\ site_scores' = hstack(fam.F, fam.F_res)
            /\ site_constraints' = hstack(fam.Z_scaling1, fam.F_res)
       ELSE IF scaling = 2
       THEN /\ species_scores' = hstack(fam.F_hat, fam.F_hat_res)
            /\ site_scores' = hstack(fam.V_hat, fam.V_hat_res)
            /\ site_constraints' = hstack(fam.Z_scaling2, fam.V_hat_res)
       ELSE UNCHANGED ScoreVars
    /\ trace' = Append(trace, "select")
    /\ pc' = "biplot"
    /\ UNCHANGED <<ArgVars, err, divzero, Y, X, Step1Vars, Step3Vars, rank,
                   Step4Vars, U_hat, ResVars, fam, biplot_scores, result>>

\* line 214
Biplot ==
    /\ pc = "biplot"
    /\ biplot_scores' = [set |-> TRUE] @@ corr(X_weighted, u)
    /\ trace' = Append(trace, "biplot")
    /\ pc' = "assemble"
    /\ UNCHANGED <<ArgVars, err, divzero, Y, X, Step1Vars, Step3Vars, rank,
                   Step4Vars, U_hat, ResVars, fam, ScoreVars, result>>

\* pd.Series / pd.DataFrame: the values under the given row labels
Labelled(idx, vals) == [index |-> idx, values |-> vals]

\* lines 216-226.  The first thing line 216 evaluates is the name pd; line 224
\* reads the name feature.  (Line 220 is written index[]; it is read here as
\* the keyword argument index=[] of the lines above it.)
Assemble ==
    /\ pc = "assemble"
    /\ IF "pd" \in ModuleGlobals /\ "feature" \in ModuleGlobals
       THEN LET eigvals == Labelled(<<>>, eigenvalues)
                total == SumSeq(eigenvalues)
            IN  /\ result' =
                      [set |-> TRUE,
                       short_method_name |-> "CCA",
                       long_method_name |-> "Canonical Correspondence Analysis",
                       eigvals |-> eigvals,
                       samples |-> Labelled(<<>>, site_scores),
                       features |-> Labelled(<<>>, species_scores),
                       biplot_scores |-> Labelled(<<>>, biplot_scores.cols),
                       sample_constraints |-> Labelled(<<>>, site_constraints),
                       proportion_explained |->
                           Labelled(<<>>, [k \in 1..Len(eigenvalues) |->
                                              <<eigenvalues[k], total>>])]
                /\ err' = err
                /\ pc' = "returned"
       ELSE /\ result' = result
            /\ err' = Raise("NameError", "pd")
            /\ pc' = "raised"
    /\ UNCHANGED <<ArgVars, trace, divzero, Y, X, Step1Vars, Step3Vars, rank,
                   Step4Vars, U_hat, ResVars, fam, ScoreVars, biplot_scores>>

Next ==
    \/ AsMatrix
    \/ CheckRows
    \/ CheckNonNegative
    \/ CheckRowMax
    \/ CheckScaling
    \/ Step1
    \/ Step2
    \/ Step3
    \/ Step4
    \/ Step5
    \/ Residuals
    \/ Scalings
    \/ SelectScaling
    \/ Biplot
    \/ Assemble

Spec == Init /\ [][Next]_vars

\* ==== properties ===============================================================
\* The conditions of the claims, stated on the arguments of the call.
RowsDiffer == Len(x.values) # Len(y.values)

HasNegativeEntry ==
    \E i \in 1..Len(y.values) : \E j \in 1..Len(y.values[i]) : y.values[i][j] < 0

HasNonPositiveRow ==
    \E i \in 1..Len(y.values) : \A j \in 1..Len(y.values[i]) : y.values[i][j] <= 0

ScalingOutOfRange == scaling # 1 /\ scaling # 2

InvalidInput ==
    RowsDiffer \/ HasNegativeEntry \/ HasNonPositiveRow \/ ScalingOutOfRange

ValidInput == ~InvalidInput

Finished == pc \in {"raised", "returned"}

ValidationPoints ==
    {"as_matrix", "check_rows", "check_nonnegative", "check_row_max",
     "check_scaling"}

Done(step) == \E k \in 1..Len(trace) : trace[k] = step

\* the call is over, on validated input, after both decompositions kept at
\* least one axis
FinishedWithPositiveRanks ==
    /\ Finished
    /\ ValidInput
    /\ Done("residuals")
    /\ Len(s) > 0
    /\ Len(s_res) > 0

\* two column descriptions denote the same column
SameColumn(a, b) ==
    /\ a.fac = b.fac
    /\ a.base = b.base
    /\ a.axis = b.axis
    /\ a.num * b.den = b.num * a.den

SameColumns(A, B) ==
    /\ Len(A) = Len(B)
    /\ \A k \in 1..Len(A) : SameColumn(A[k], B[k])

\* C1: a call whose arguments violate one of the four conditions executes no
\* numerical step and returns nothing; it is either still in the sanity checks
\* or has raised ValueError / NotImplementedError.
C1_FailFast ==
    InvalidInput =>
        /\ trace = <<>>
        /\ result = None
        /\ pc \in ValidationPoints \cup {"raised"}
        /\ pc = "raised" => err.type \in {"ValueError", "NotImplementedError"}
        /\ pc # "raised" => err = NoError

C1_Witness ==
    /\ InvalidInput
    /\ ~RowsDiffer /\ ~HasNegativeEntry /\ ~HasNonPositiveRow
    /\ pc = "raised"
    /\ err.type = "NotImplementedError"

\* C10: the error raised on invalid arguments is the first of row-count
\* mismatch, negative abundance, non-positive row, unsupported scaling that
\* applies; the first three are ValueError, the last NotImplementedError.
C10_Priority ==
    (InvalidInput /\ pc = "raised") =>
        /\ err.why = "rows" <=> RowsDiffer
        /\ err.why = "negative" <=> (~RowsDiffer /\ HasNegativeEntry)
        /\ err.why = "zero_row" <=>
              (~RowsDiffer /\ ~HasNegativeEntry /\ HasNonPositiveRow)
        /\ err.why = "scaling" <=>
              (~RowsDiffer /\ ~HasNegativeEntry /\ ~HasNonPositiveRow
                  /\ ScalingOutOfRange)
        /\ err.type = IF err.why = "scaling" THEN "NotImplementedError"
                      ELSE "ValueError"

\* several conditions violated at once: rows agree, a negative entry, a
\* non-positive row and an unsupported scaling
C10_Witness ==
    /\ pc = "raised"
    /\ ~RowsDiffer /\ HasNegativeEntry /\ HasNonPositiveRow /\ ScalingOutOfRange
    /\ err = Raise("ValueError", "negative")

\* ---- C9 ------------------------------------------------------------------
FeatureObserved(j) == \E i \in 1..Len(y.values) : y.values[i][j] > 0

Step1Divisions ==
    {"Q", "Q_bar", "row_marginals**-0.5", "column_marginals**-0.5"}

\* C9 as stated: after the sanity checks the grand total, every row marginal,
\* every column marginal and every expected cell are strictly positive and none
\* of the divisions by them is a division by zero.
C9_AllMarginalsPositive ==
    Done("step1") =>
        /\ grand_total > 0
        /\ \A i \in 1..Len(row_marginals.num) : row_marginals.num[i] > 0
        /\ \A j \in 1..Len(column_marginals.num) : column_marginals.num[j] > 0
        /\ ZeroCells(expected) = {}
        /\ divzero \cap Step1Divisions = {}

\* C9 (amended): after the sanity checks the grand total and every row marginal
\* are strictly positive; a column marginal, and the expected cells of that
\* column, are strictly positive exactly when the feature has a positive entry;
\* forming Q_bar divides by zero exactly when some feature has none, and the
\* divisions by the grand total and by the row marginals never do.
C9_PositiveWhereObserved ==
    Done("step1") =>
        /\ grand_total > 0
        /\ row_marginals.den > 0 /\ column_marginals.den > 0
        /\ \A i \in 1..Len(row_marginals.num) : row_marginals.num[i] > 0
        /\ \A j \in 1..Len(column_marginals.num) :
              /\ column_marginals.num[j] >= 0
              /\ column_marginals.num[j] > 0 <=> FeatureObserved(j)
              /\ \A i \in 1..Len(row_marginals.num) :
                    expected.num[i][j] > 0 <=> FeatureObserved(j)
        /\ "Q_bar" \in divzero <=>
              (\E j \in 1..Len(column_marginals.num) : ~FeatureObserved(j))
        /\ "Q" \notin divzero
        /\ "row_marginals**-0.5" \notin divzero
        /\ "column_marginals**-0.5" \in divzero =>
              (\E j \in 1..Len(column_marginals.num) : ~FeatureObserved(j))

\* a validated table with a feature that was never observed, Q_bar formed
C9_Witness ==
    /\ Done("step1")
    /\ \E j \in 1..Len(column_marginals.num) : ~FeatureObserved(j)
    /\ \E j \in 1..Len(column_marginals.num) : FeatureObserved(j)
    /\ "Q_bar" \in divzero

\* ---- C2 ------------------------------------------------------------------
Populated(r) ==
    /\ r.set
    /\ Len(r.eigvals.values) > 0
    /\ r.samples.values = site_scores
    /\ r.features.values = species_scores
    /\ r.sample_constraints.values = site_constraints
    /\ r.biplot_scores.values = biplot_scores.cols
    /\ Len(r.proportion_explained.values) > 0

\* C2: a call on validated input whose two decompositions have positive rank
\* ends by returning a fully populated result, never in an error.
C2_ReturnsResult ==
    FinishedWithPositiveRanks =>
        /\ pc = "returned"
        /\ err = NoError
        /\ Populated(result)

\* C3: the result's row labels are the identifiers of the inputs: samples and
\* sample_constraints carry y's sample identifiers, features y's feature
\* identifiers, biplot_scores x's constraint identifiers.
C3_LabelsPreserved ==
    FinishedWithPositiveRanks =>
        /\ result.set
        /\ result.samples.index = y.index
        /\ result.sample_constraints.index = y.index
        /\ result.features.index = y.columns
        /\ result.biplot_scores.index = x.columns

\* C4: the result has one eigenvalue, one samples column, one features column
\* and one proportion per retained axis, rank_fit + rank_res in all.
C4_Shapes ==
    FinishedWithPositiveRanks =>
        /\ result.set
        /\ Len(result.eigvals.values) = Len(s) + Len(s_res)
        /\ Len(result.samples.values) = Len(s) + Len(s_res)
        /\ Len(result.features.values) = Len(s) + Len(s_res)
        /\ Len(result.proportion_explained.values) = Len(s) + Len(s_res)

\* the same, of the arrays lines 171 and 205-212 compute
LocalShapes ==
    Done("select") =>
        /\ Len(eigenvalues) = Len(s) + Len(s_res)
        /\ Len(site_scores) = Len(s) + Len(s_res)
        /\ Len(species_scores) = Len(s) + Len(s_res)
        /\ Len(site_constraints) = Len(s) + Len(s_res)

SiteScores(sc) ==
    IF sc = 1 THEN hstack(fam.F, fam.F_res) ELSE hstack(fam.V_hat, fam.V_hat_res)
SpeciesScores(sc) ==
    IF sc = 1 THEN hstack(fam.V, fam.V_res) ELSE hstack(fam.F_hat, fam.F_hat_res)

\* C6: on every axis, returned site scores of scaling 1 are those of scaling 2
\* times the singular value, and returned species scores of scaling 2 are those
\* of scaling 1 times the singular value.
C6_ScalingDuality ==
    FinishedWithPositiveRanks =>
        /\ result.set
        /\ scaling = 1 =>
              SameColumns(result.samples.values,
                          Times(SiteScores(2), s \o s_res))
        /\ scaling = 2 =>
              SameColumns(result.features.values,
                          Times(SpeciesScores(1), s \o s_res))

\* the same, of the families lines 175-202 compute
LocalDuality ==
    Done("scalings") =>
        /\ SameColumns(SiteScores(1), Times(SiteScores(2), s \o s_res))
        /\ SameColumns(SpeciesScores(2), Times(SpeciesScores(1), s \o s_res))

\* ---- C7 ------------------------------------------------------------------
ConstantOneConstraint ==
    /\ Len(x.columns) = 1
    /\ \A i \in 1..Len(x.values) : x.values[i][1] = 1

AllFeaturesObserved == \A j \in 1..Len(y.columns) : FeatureObserved(j)

\* C7: with a single constraint equal to 1 for every sample and a validated
\* abundance table, no division by zero occurs and the call returns a result.
\* (Stated for tables in which every feature has a positive entry, so that a
\* division by zero can only come from the constraint.)
C7_ConstantConstraintFinite ==
    (ConstantOneConstraint /\ ValidInput /\ AllFeaturesObserved) =>
        /\ divzero = {}
        /\ Finished => result.set

\* C8: the first rank_fit columns of sample_constraints are the fitted
\* linear-combination scores of the requested scaling and the others are the
\* residual columns of samples.
C8_ConstraintBlocks ==
    FinishedWithPositiveRanks =>
        /\ result.set
        /\ SubSeq(result.sample_constraints.values, 1, Len(s)) =
              (IF scaling = 1 THEN fam.Z_scaling1 ELSE fam.Z_scaling2)
        /\ SubSeq(result.sample_constraints.values, Len(s) + 1,
                  Len(s) + Len(s_res)) =
              SubSeq(result.samples.values, Len(s) + 1, Len(s) + Len(s_res))

\* the same, of the arrays lines 205-212 compute
LocalConstraintBlocks ==
    Done("select") =>
        /\ SubSeq(site_constraints, 1, Len(s)) =
              TimesInv(Weighted("row_marginals**-0.5", Columns("Y_hat.U", Len(s))),
                       IF scaling = 1 THEN [k \in 1..Len(s) |-> 1] ELSE s)
        /\ SubSeq(site_constraints, Len(s) + 1, Len(s) + Len(s_res)) =
              SubSeq(site_scores, Len(s) + 1, Len(s) + Len(s_res))

====
